---- MODULE Spec2Model ----
(***************************************************************************)
(* Model of run_controller_cli.py: the gamepad_proxy translation loop, the *)
(* start_gamepad command that runs it, and the session set-up and          *)
(* tear-down of _main.                                                     *)
(*                                                                         *)
(* Samples.  pygame reports an axis sample as a float in [-1.0, 1.0].  The *)
(* model counts in halves: the integer h stands for the number h/2, so    *)
(* -2, -1, 0, 1, 2 are -1.0, -0.5, 0.0, 0.5, 1.0.  A stick coordinate is   *)
(* kept in the same unit, because the loop hands the sample to the stick   *)
(* state as it is: the coordinate c stands for c/2, and the integer k is   *)
(* the coordinate 2*k.                                                     *)
(***************************************************************************)
EXTENDS Integers, Sequences, FiniteSets, TLC

VARIABLES
    mainPc,      \* position of _main
    cliResult,   \* how cli.run() ended: "none" | "returned" | "raised"
    transport,   \* "none" | "open" | "closed"
    closeCount,  \* number of transport.close() calls
    log,         \* messages given to logger.info
    connected,   \* the peer is still there (send() succeeds)
    pending,     \* pygame's event queue: events not yet returned by event.get()
    delivered,   \* number of events the device has produced so far
    pc,          \* position of gamepad_proxy
    exc,         \* the exception that left gamepad_proxy, "none" if none
    batch,       \* the list returned by the last pygame.event.get()
    i,           \* index in batch of the event being processed
    stick,       \* controller_state.{l,r}_stick_state coordinates (in halves)
    held,        \* buttons held in controller_state.button_state
    calls,       \* calls made on the controller state for the current batch
    idlePolls,   \* polls made since the loop last suspended (saturates at 2)
    lastDown     \* the Button Down processed last, if no event followed it
                 \* yet: its button index and the held set before it

vars == <<mainPc, cliResult, transport, closeCount, log, connected, pending,
          delivered, pc, exc, batch, i, stick, held, calls, idlePolls,
          lastDown>>

mainVars == <<mainPc, cliResult, transport, closeCount, log>>
loopVars == <<pc, exc, batch, i, stick, held, calls, idlePolls, lastDown>>

----------------------------------------------------------------------------
(* Bounds *)

\* events the device produces in one run
MaxEvents == 3

(* Inputs *)

\* event.button values the device produces; 14 has no branch in the loop
PolledButtons == {0, 1, 14}
\* event.axis values the device produces: the left stick's horizontal axis,
\* the right stick's vertical axis, and 4, which has no branch in the loop
PolledAxes == {0, 3, 4}
\* event.value samples the device produces on an axis, in halves: the left
\* stick's horizontal axis gives -1.0, 0.0, 0.5 and 1.0, the other axes 0.5
PolledSamples(a) == IF a = 0 THEN {-2, 0, 1, 2} ELSE {1}

AxisEvents ==
    UNION {[type : {"axis"}, index : {a}, value : PolledSamples(a)] :
              a \in PolledAxes}
ButtonEvents == [type : {"down", "up"}, index : PolledButtons, value : {0}]
Events == AxisEvents \cup ButtonEvents

----------------------------------------------------------------------------
(* The branches of gamepad_proxy *)

\* the "if event.axis == n" branches: which setter of which stick
AxisBinding ==
    0 :> [side |-> "l", dir |-> "h"] @@ 1 :> [side |-> "l", dir |-> "v"] @@
    2 :> [side |-> "r", dir |-> "h"] @@ 3 :> [side |-> "r", dir |-> "v"]

\* ButtonDownName as it would be with the last branch tested against 12
\* instead of 13: no branch for 13, and the branch of 12 gone
ButtonDownNameMistyped ==
    0 :> "y" @@ 1 :> "b" @@ 2 :> "a" @@ 3 :> "x" @@ 4 :> "l" @@ 5 :> "r" @@
    6 :> "zl" @@ 7 :> "zr" @@ 8 :> "minus" @@ 9 :> "plus" @@
    10 :> "l_stick" @@ 11 :> "r_stick" @@ 12 :> "capture"

\* the "if event.button == n" branches under JOYBUTTONDOWN
ButtonDownName ==
    0 :> "y" @@ 1 :> "b" @@ 2 :> "a" @@ 3 :> "x" @@ 4 :> "l" @@ 5 :> "r" @@
    6 :> "zl" @@ 7 :> "zr" @@ 8 :> "minus" @@ 9 :> "plus" @@
    10 :> "l_stick" @@ 11 :> "r_stick" @@ 12 :> "home" @@ 13 :> "capture"

\* ButtonUpName as it would be with the names of the first two branches
\* exchanged
ButtonUpNameSwapped ==
    0 :> "b" @@ 1 :> "y" @@ 2 :> "a" @@ 3 :> "x" @@ 4 :> "l" @@ 5 :> "r" @@
    6 :> "zl" @@ 7 :> "zr" @@ 8 :> "minus" @@ 9 :> "plus" @@
    10 :> "l_stick" @@ 11 :> "r_stick" @@ 12 :> "home" @@ 13 :> "capture"

\* the "if event.button == n" branches under JOYBUTTONUP
ButtonUpName ==
    0 :> "y" @@ 1 :> "b" @@ 2 :> "a" @@ 3 :> "x" @@ 4 :> "l" @@ 5 :> "r" @@
    6 :> "zl" @@ 7 :> "zr" @@ 8 :> "minus" @@ 9 :> "plus" @@
    10 :> "l_stick" @@ 11 :> "r_stick" @@ 12 :> "home" @@ 13 :> "capture"

\* the value the loop hands to set_h / set_v for a sample: event.value itself
AxisArg(ev) == ev.value

\* StickState.set_h / set_v accept a value v with 0 <= v < 0x1000 and raise
\* ValueError otherwise (coordinates are in halves)
StickAccepts(c) == 0 <= c /\ c < 2 * 4096

\* no Button Down is the last event processed
NoDown == [index |-> -1, before |-> {}]

Coord(b) == <<b.side, b.dir>>
Coords == {<<"l", "h">>, <<"l", "v">>, <<"r", "h">>, <<"r", "v">>}

----------------------------------------------------------------------------
Init ==
    /\ mainPc = "start"
    /\ cliResult = "none"
    /\ transport = "none"
    /\ closeCount = 0
    /\ log = {}
    /\ connected = TRUE
    /\ pending = <<>>
    /\ delivered = 0
    /\ pc = "idle"
    /\ exc = "none"
    /\ batch = <<>>
    /\ i = 0
    /\ stick = [c \in Coords |-> 0]
    /\ held = {}
    /\ calls = <<>>
    /\ idlePolls = 0
    /\ lastDown = NoDown

----------------------------------------------------------------------------
(* _main *)

\* create_hid_server and protocol.get_controller_state(); the CLI is built
CreateHidServer ==
    /\ mainPc = "start"
    /\ \E ok \in BOOLEAN :
         IF ok THEN mainPc' = "created" /\ transport' = "open"
               ELSE mainPc' = "failed" /\ transport' = transport
    /\ UNCHANGED <<cliResult, closeCount, log, connected, pending,
                   delivered, loopVars>>

\* "if args.nfc is not None: await cli.commands['nfc'](args.nfc)" (nfc says
\* whether args.nfc is given), which is outside the try statement: an
\* exception of the command leaves _main
InitialNfc ==
    /\ mainPc = "created"
    /\ \E nfc \in BOOLEAN, ok \in BOOLEAN :
         mainPc' = IF nfc /\ ~ok THEN "failed" ELSE "cli"
    /\ UNCHANGED <<cliResult, transport, closeCount, log, connected,
                   pending, delivered, loopVars>>

\* the start_gamepad command: cli.run() awaits gamepad_proxy, which runs
\* pygame.init(), opens the joysticks and enters its loop
StartGamepad ==
    /\ mainPc = "cli"
    /\ pc = "idle"
    /\ pc' = "poll"
    /\ UNCHANGED <<mainVars, connected, pending, delivered, exc, batch, i,
                   stick, held, calls, idlePolls, lastDown>>

\* CliRunEnds as it would be if cli.run() could end while a command it
\* started is still running
CliRunEndsAnyTime ==
    /\ mainPc = "cli"
    /\ mainPc' = "finally"
    /\ \E r \in {"returned", "raised"} : cliResult' = r
    /\ UNCHANGED <<transport, closeCount, log, connected, pending,
                   delivered, loopVars>>

\* cli.run() ends, by returning or by an exception.  It awaits the command
\* it runs, so it cannot end while gamepad_proxy is still running.
CliRunEnds ==
    /\ mainPc = "cli"
    /\ pc \in {"idle", "raised", "returned"}
    /\ mainPc' = "finally"
    /\ \E r \in {"returned", "raised"} : cliResult' = r
    /\ UNCHANGED <<transport, closeCount, log, connected, pending,
                   delivered, loopVars>>

\* buttons the operator holds or releases through the command interface
CliButtons == {"y"}

\* CliCommand as it would be if start_gamepad ran gamepad_proxy as a task of
\* its own instead of awaiting it: the prompt is back while the loop runs
CliCommandDetached ==
    /\ mainPc = "cli"
    /\ \E b \in CliButtons, push \in BOOLEAN :
         held' = IF push THEN held \cup {b} ELSE held \ {b}
    /\ lastDown' = NoDown
    /\ UNCHANGED <<mainVars, connected, pending, delivered, pc, exc, batch, i,
                   stick, calls, idlePolls>>

\* a command typed at the prompt of cli.run() that mutates the controller
\* state the CLI was built with ("hold <button>", "release <button>").  The
\* prompt is not there while a command is awaited, and start_gamepad awaits
\* gamepad_proxy.
CliCommand ==
    /\ mainPc = "cli"
    /\ pc \in {"idle", "raised", "returned"}
    /\ \E b \in CliButtons, push \in BOOLEAN :
         held' = IF push THEN held \cup {b} ELSE held \ {b}
    /\ lastDown' = NoDown
    /\ UNCHANGED <<mainVars, connected, pending, delivered, pc, exc, batch, i,
                   stick, calls, idlePolls>>

\* the finally clause: logger.info(...) and await transport.close()
Close ==
    /\ mainPc = "finally"
    /\ log' = log \cup {"Stopping communication..."}
    /\ closeCount' = closeCount + 1
    /\ transport' = "closed"
    /\ mainPc' = IF cliResult = "raised" THEN "failed" ELSE "done"
    /\ UNCHANGED <<cliResult, connected, pending, delivered, loopVars>>

----------------------------------------------------------------------------
(* The environment *)

\* the gamepad produces an event; pygame queues it until the next event.get().
\* All the loop sees of an arrival is the queue at its next event.get(), so
\* an arrival is placed when the loop is at its head, before that call.
DeviceInput ==
    /\ pc = "poll"
    /\ delivered < MaxEvents
    /\ \E e \in Events : pending' = Append(pending, e)
    /\ delivered' = delivered + 1
    /\ UNCHANGED <<mainVars, connected, loopVars>>

\* the console goes away: from now on send() raises NotConnectedError
PeerGone ==
    /\ transport = "open"
    /\ connected
    /\ connected' = FALSE
    /\ UNCHANGED <<mainVars, pending, delivered, loopVars>>

----------------------------------------------------------------------------
(* gamepad_proxy *)

\* position after the event at index i: the next event of the batch, or the
\* head of the while loop when the batch is exhausted
AfterEvent == IF i + 1 > Len(batch) THEN "poll" ELSE "event"

Bump(n) == IF n >= 2 THEN 2 ELSE n + 1

\* Poll as it would be if the batch were gone through from its newest event
\* to its oldest
PollNewestFirst ==
    /\ pc = "poll"
    /\ batch' = [p \in 1..Len(pending) |-> pending[Len(pending) + 1 - p]]
    /\ pending' = <<>>
    /\ i' = 1
    /\ calls' = <<>>
    /\ idlePolls' = Bump(idlePolls)
    /\ pc' = IF pending = <<>> THEN "poll" ELSE "event"
    /\ UNCHANGED <<mainVars, connected, delivered, exc, stick, held, lastDown>>

\* "for event in pygame.event.get()": takes everything queued, possibly
\* nothing; with no event the loop is back at its head at once
Poll ==
    /\ pc = "poll"
    /\ batch' = pending
    /\ pending' = <<>>
    /\ i' = 1
    /\ calls' = <<>>
    /\ idlePolls' = Bump(idlePolls)
    /\ pc' = IF pending = <<>> THEN "poll" ELSE "event"
    /\ UNCHANGED <<mainVars, connected, delivered, exc, stick, held, lastDown>>

\* AxisMotion as it would be if the loop flushed the stick state after the
\* setter: it awaits controller_state.send() before the next event
AxisMotionFlushing ==
    /\ pc = "event"
    /\ batch[i].type = "axis"
    /\ LET ev == batch[i] IN
       IF ev.index \in DOMAIN AxisBinding
       THEN LET b == AxisBinding[ev.index]
                arg == AxisArg(ev)
            IN /\ calls' = Append(calls, [op |-> "set", ev |-> i,
                                          target |-> Coord(b), arg |-> arg])
               /\ IF StickAccepts(arg)
                  THEN /\ stick' = [stick EXCEPT ![Coord(b)] = arg]
                       /\ i' = i
                       /\ pc' = "send"
                       /\ exc' = exc
                  ELSE /\ pc' = "raised"
                       /\ exc' = "ValueError"
                       /\ UNCHANGED <<stick, i>>
       ELSE /\ i' = i + 1
            /\ pc' = AfterEvent
            /\ UNCHANGED <<calls, stick, exc>>
    /\ lastDown' = NoDown
    /\ UNCHANGED <<mainVars, connected, pending, delivered, batch, held,
                   idlePolls>>

\* AxisMotion as it would be if the loop caught the exception of the setter
\* and went on with the next event
AxisMotionSwallowing ==
    /\ pc = "event"
    /\ batch[i].type = "axis"
    /\ LET ev == batch[i] IN
       IF ev.index \in DOMAIN AxisBinding
       THEN LET b == AxisBinding[ev.index]
                arg == AxisArg(ev)
            IN /\ calls' = Append(calls, [op |-> "set", ev |-> i,
                                          target |-> Coord(b), arg |-> arg])
               /\ stick' = IF StickAccepts(arg)
                           THEN [stick EXCEPT ![Coord(b)] = arg]
                           ELSE stick
               /\ i' = i + 1
               /\ pc' = AfterEvent
               /\ exc' = exc
       ELSE /\ i' = i + 1
            /\ pc' = AfterEvent
            /\ UNCHANGED <<calls, stick, exc>>
    /\ lastDown' = NoDown
    /\ UNCHANGED <<mainVars, connected, pending, delivered, batch, held,
                   idlePolls>>

\* event.type == JOYAXISMOTION: l_stick_state / r_stick_state .set_h / .set_v
\* is called with event.value; no branch for another axis; nothing is sent
AxisMotion ==
    /\ pc = "event"
    /\ batch[i].type = "axis"
    /\ LET ev == batch[i] IN
       IF ev.index \in DOMAIN AxisBinding
       THEN LET b == AxisBinding[ev.index]
                arg == AxisArg(ev)
            IN /\ calls' = Append(calls, [op |-> "set", ev |-> i,
                                          target |-> Coord(b), arg |-> arg])
               /\ IF StickAccepts(arg)
                  THEN /\ stick' = [stick EXCEPT ![Coord(b)] = arg]
                       /\ i' = i + 1
                       /\ pc' = AfterEvent
                       /\ exc' = exc
                  ELSE /\ pc' = "raised"
                       /\ exc' = "ValueError"
                       /\ UNCHANGED <<stick, i>>
       ELSE /\ i' = i + 1
            /\ pc' = AfterEvent
            /\ UNCHANGED <<calls, stick, exc>>
    /\ lastDown' = NoDown
    /\ UNCHANGED <<mainVars, connected, pending, delivered, batch, held,
                   idlePolls>>

\* ButtonDown as it would be if the loop only marked the button pushed,
\* without the send() of button_press
ButtonDownSilent ==
    /\ pc = "event"
    /\ batch[i].type = "down"
    /\ LET ev == batch[i] IN
       IF ev.index \in DOMAIN ButtonDownName
       THEN /\ held' = held \cup {ButtonDownName[ev.index]}
            /\ calls' = Append(calls, [op |-> "press", ev |-> i,
                                       target |-> ButtonDownName[ev.index],
                                       arg |-> 0])
            /\ lastDown' = [index |-> ev.index, before |-> held]
            /\ pc' = AfterEvent
            /\ i' = i + 1
       ELSE /\ i' = i + 1
            /\ pc' = AfterEvent
            /\ lastDown' = NoDown
            /\ UNCHANGED <<calls, held>>
    /\ UNCHANGED <<mainVars, connected, pending, delivered, exc, batch, stick,
                   idlePolls>>

\* event.type == JOYBUTTONDOWN: await button_press(controller_state, name),
\* which marks the button pushed and then awaits controller_state.send()
ButtonDown ==
    /\ pc = "event"
    /\ batch[i].type = "down"
    /\ LET ev == batch[i] IN
       IF ev.index \in DOMAIN ButtonDownName
       THEN /\ held' = held \cup {ButtonDownName[ev.index]}
            /\ calls' = Append(calls, [op |-> "press", ev |-> i,
                                       target |-> ButtonDownName[ev.index],
                                       arg |-> 0])
            /\ lastDown' = [index |-> ev.index, before |-> held]
            /\ pc' = "send"
            /\ i' = i
       ELSE /\ i' = i + 1
            /\ pc' = AfterEvent
            /\ lastDown' = NoDown
            /\ UNCHANGED <<calls, held>>
    /\ UNCHANGED <<mainVars, connected, pending, delivered, exc, batch, stick,
                   idlePolls>>

\* ButtonUp as it would be if it released every button and not only its own
ButtonUpReleasesAll ==
    /\ pc = "event"
    /\ batch[i].type = "up"
    /\ LET ev == batch[i] IN
       IF ev.index \in DOMAIN ButtonUpName
       THEN /\ held' = {}
            /\ calls' = Append(calls, [op |-> "release", ev |-> i,
                                       target |-> ButtonUpName[ev.index],
                                       arg |-> 0])
            /\ pc' = "send"
            /\ i' = i
       ELSE /\ i' = i + 1
            /\ pc' = AfterEvent
            /\ UNCHANGED <<calls, held>>
    /\ lastDown' = NoDown
    /\ UNCHANGED <<mainVars, connected, pending, delivered, exc, batch, stick,
                   idlePolls>>

\* ButtonUp as it would be if button_release were started without being
\* awaited: the loop goes on while its send() is still under way
ButtonUpNotAwaited ==
    /\ pc = "event"
    /\ batch[i].type = "up"
    /\ LET ev == batch[i] IN
       IF ev.index \in DOMAIN ButtonUpName
       THEN /\ held' = held \ {ButtonUpName[ev.index]}
            /\ calls' = Append(calls, [op |-> "release", ev |-> i,
                                       target |-> ButtonUpName[ev.index],
                                       arg |-> 0])
            /\ pc' = AfterEvent
            /\ i' = i + 1
       ELSE /\ i' = i + 1
            /\ pc' = AfterEvent
            /\ UNCHANGED <<calls, held>>
    /\ lastDown' = NoDown
    /\ UNCHANGED <<mainVars, connected, pending, delivered, exc, batch, stick,
                   idlePolls>>

\* event.type == JOYBUTTONUP: await button_release(controller_state, name)
ButtonUp ==
    /\ pc = "event"
    /\ batch[i].type = "up"
    /\ LET ev == batch[i] IN
       IF ev.index \in DOMAIN ButtonUpName
       THEN /\ held' = held \ {ButtonUpName[ev.index]}
            /\ calls' = Append(calls, [op |-> "release", ev |-> i,
                                       target |-> ButtonUpName[ev.index],
                                       arg |-> 0])
            /\ pc' = "send"
            /\ i' = i
       ELSE /\ i' = i + 1
            /\ pc' = AfterEvent
            /\ UNCHANGED <<calls, held>>
    /\ lastDown' = NoDown
    /\ UNCHANGED <<mainVars, connected, pending, delivered, exc, batch, stick,
                   idlePolls>>

\* the send() awaited inside button_press / button_release completes, or
\* raises NotConnectedError; gamepad_proxy has no handler, so the exception
\* leaves it
SendDone ==
    /\ pc = "send"
    /\ calls' = Append(calls, [op |-> "send", ev |-> i, target |-> "report",
                               arg |-> IF connected THEN 1 ELSE 0])
    /\ IF connected
       THEN /\ i' = i + 1
            /\ pc' = AfterEvent
            /\ idlePolls' = 0
            /\ exc' = exc
       ELSE /\ pc' = "raised"
            /\ exc' = "NotConnectedError"
            /\ UNCHANGED <<i, idlePolls>>
    /\ UNCHANGED <<mainVars, connected, pending, delivered, batch, stick, held,
                   lastDown>>

----------------------------------------------------------------------------
Next ==
    \/ CreateHidServer
    \/ InitialNfc
    \/ StartGamepad
    \/ CliCommand
    \/ CliRunEnds
    \/ Close
    \/ DeviceInput
    \/ PeerGone
    \/ Poll
    \/ AxisMotion
    \/ ButtonDown
    \/ ButtonUp
    \/ SendDone

Spec == Init /\ [][Next]_vars

TypeOK ==
    /\ mainPc \in {"start", "created", "cli", "finally", "done", "failed"}
    /\ pc \in {"idle", "poll", "event", "send", "raised", "returned"}
    /\ closeCount \in 0..1
    /\ i \in 0..(MaxEvents + 1)

----------------------------------------------------------------------------
(* Vocabulary of the properties *)

\* the event at position p of the current batch has been processed
Processed(p) == p \in 1..Len(batch) /\ p < i

\* the send() attempts made while processing the event at position p
SendsFor(p) ==
    Cardinality({k \in 1..Len(calls) : calls[k].op = "send" /\ calls[k].ev = p})

\* the set_h / set_v calls made for the current batch
SetCalls == {k \in 1..Len(calls) : calls[k].op = "set"}

\* a send() of the loop failed because the peer is gone
SendFailed ==
    \E k \in 1..Len(calls) : calls[k].op = "send" /\ calls[k].arg = 0

\* what the loop itself has logged (the finally clause of _main logs too)
LoopLog == log \ {"Stopping communication..."}

\* round((raw + 1.0) * 2047) for the sample h/2, halves rounded up
Rescale(h) == ((h + 2) * 2047 + 1) \div 2

Vertical(a) == a \in {1, 3}
Mapped(ev) ==
    IF ev.type = "axis" THEN ev.index \in 0..3 ELSE ev.index \in 0..13

----------------------------------------------------------------------------
(* C1: once a send() of the running loop has failed with the connection-  *)
(* lost condition, the loop has logged the event and has returned          *)
(* (TERMINATED), and it polls and mutates no more.                         *)
C1_ConnectionLostTerminates ==
    SendFailed => /\ pc = "returned"
                  /\ LoopLog # {}
                  /\ exc = "none"

C4_YieldsBetweenPolls == idlePolls <= 1

(* C5: once the transport exists, transport.close() has been called        *)
(* exactly once when _main is over, whichever way it ended.                *)
C5_ClosedExactlyOnce ==
    /\ closeCount <= 1
    /\ (mainPc \in {"done", "failed"} /\ transport # "none") => closeCount = 1

(* C6: every coordinate the loop has written into the stick state is an    *)
(* integer of 0..4095, equal to round((value + 1.0) * 2047) of the sample, *)
(* negated first on a vertical axis.                                       *)
C6_WrittenCoordinateRescaled ==
    \A k \in SetCalls :
        LET ev == batch[calls[k].ev]
            raw == IF Vertical(ev.index) THEN 0 - ev.value ELSE ev.value
        IN StickAccepts(calls[k].arg) =>
             /\ calls[k].arg % 2 = 0
             /\ calls[k].arg \div 2 \in 0..4095
             /\ calls[k].arg = 2 * Rescale(raw)

(* C7: the rescaling applied to a sample gives 0 for -1.0, 4095 for 1.0    *)
(* and 2047 for 0.0 (seen on the left stick's horizontal axis, which is    *)
(* not inverted).                                                          *)
C7_RescaleFixedPoints ==
    \A k \in SetCalls :
        LET ev == batch[calls[k].ev] IN
        ev.index = 0 =>
            /\ ev.value = -2 => calls[k].arg = 2 * 0
            /\ ev.value = 2 => calls[k].arg = 2 * 4095
            /\ ev.value = 0 => calls[k].arg = 2 * 2047

(* C8: on a vertical axis (1 or 3) the sample is negated before rescaling, *)
(* so 0.5 gives 1024; on a horizontal axis (0 or 2) it is rescaled as is.  *)
C8_VerticalInverted ==
    \A k \in SetCalls :
        LET ev == batch[calls[k].ev] IN
        /\ Vertical(ev.index) =>
              /\ calls[k].arg = 2 * Rescale(0 - ev.value)
              /\ ev.value = 1 => calls[k].arg = 2 * 1024
        /\ ~Vertical(ev.index) => calls[k].arg = 2 * Rescale(ev.value)

(* C9: the Axis Motion event {axis 0, value 0.5} sets the left stick's     *)
(* horizontal coordinate to 3071 and is followed by exactly one send().    *)
C9_ScenarioA ==
    \A p \in 1..Len(batch) :
        (Processed(p) /\ batch[p] = [type |-> "axis", index |-> 0, value |-> 1])
        => /\ \E k \in SetCalls :
                 /\ calls[k].ev = p
                 /\ calls[k].target = <<"l", "h">>
                 /\ calls[k].arg = 2 * 3071
           /\ SendsFor(p) = 1

(* C10: an event whose index has no entry in the mapping table makes the   *)
(* loop raise UnmappedIndex before any mutation; the loop never gets past  *)
(* such an event as if it had not been there.                              *)
C10_UnmappedRaises ==
    \A p \in 1..Len(batch) : Processed(p) => Mapped(batch[p])

----------------------------------------------------------------------------
\* the step that processes a Button Up whose index is that of the Button
\* Down processed just before it
UpAfterDown ==
    /\ pc = "event" /\ pc' = "send"
    /\ batch[i].type = "up"
    /\ batch[i].index = lastDown.index

(* C11, as stated: a Button Down followed by a Button Up with the same     *)
(* mapped index leaves the held set equal to what it was before the Button *)
(* Down, whatever that set was.                                            *)
C11_Original_RoundTrip ==
    [][UpAfterDown => held' = lastDown.before]_vars

(* C11, amended: a Button Down followed by a Button Up with the same       *)
(* mapped index leaves that button released and every other button as it   *)
(* was before the Button Down: the held set is the one before the Button   *)
(* Down without that button, hence the same set exactly when the button    *)
(* was not held before.                                                    *)
C11_RoundTripReleases ==
    [][UpAfterDown =>
         /\ held' = lastDown.before \ {ButtonDownName[lastDown.index]}
         /\ (ButtonDownName[lastDown.index] \notin lastDown.before
               => held' = lastDown.before)]_vars

\* "down 1, down 0, up 0" in one batch: the Button Up of the pair has acted
\* and "b", held before the pair, is all that is held
C11_Witness ==
    /\ Len(batch) = 3
    /\ i = 3
    /\ pc = "send"
    /\ batch[2] = [type |-> "down", index |-> 0, value |-> 0]
    /\ batch[3] = [type |-> "up", index |-> 0, value |-> 0]
    /\ \E k \in 1..Len(calls) : calls[k].op = "release" /\ calls[k].ev = 3
    /\ held = {"b"}

----------------------------------------------------------------------------
\* the send() calls of the current batch that were started (one by each
\* button_press / button_release) and have neither completed nor failed
InFlight ==
    Cardinality({k \in 1..Len(calls) : calls[k].op \in {"press", "release"}})
    - Cardinality({k \in 1..Len(calls) : calls[k].op = "send"})

(* C14: at most one send() is in flight; while one is, the loop is waiting *)
(* for it, and it is at an event or at the poll only when none is: no      *)
(* transmission is started and no event processed during a send().         *)
C14_OneSendInFlight ==
    /\ InFlight \in {0, 1}
    /\ InFlight = 1 <=> pc = "send"
    /\ pc = "send" => /\ calls[Len(calls)].op \in {"press", "release"}
                      /\ calls[Len(calls)].ev = i
    /\ \A k \in 1..Len(calls) : calls[k].ev <= i

\* a second send() of a batch is in flight while the next event waits
C14_Witness ==
    /\ pc = "send"
    /\ i = 2
    /\ Len(batch) = 3
    /\ SendsFor(1) = 1
    /\ InFlight = 1

(* C15: a mutation of the loop and the send() that follows it are one step *)
(* for the command interface: while that send() is under way, no step      *)
(* changes the held buttons or the stick coordinates.                      *)
C15_NoMutationDuringSend ==
    [][pc = "send" => (held' = held /\ stick' = stick)]_vars

\* the loop awaits the send() of a Button Down for "b" while "y", which only
\* the command interface can have pushed, is held too
C15_Witness ==
    /\ pc = "send"
    /\ mainPc = "cli"
    /\ batch = <<[type |-> "down", index |-> 1, value |-> 0]>>
    /\ delivered = 1
    /\ held = {"y", "b"}

----------------------------------------------------------------------------
\* the mutation of the event at position p of the batch has been made
Mutated(p) ==
    \/ Processed(p)
    \/ p = i /\ \E k \in 1..Len(calls) :
                   calls[k].ev = p /\ calls[k].op \in {"press", "release"}

Last(S) == CHOOSE p \in S : \A q \in S : q <= p

\* the events of the batch that have written coordinate c, and those that
\* have pressed or released button n
WritersOf(c) ==
    {p \in 1..Len(batch) :
        /\ Processed(p) /\ batch[p].type = "axis"
        /\ batch[p].index \in 0..3
        /\ Coord(AxisBinding[batch[p].index]) = c}
TouchersOf(n) ==
    {p \in 1..Len(batch) :
        /\ Mutated(p) /\ batch[p].index \in 0..13
        /\ \/ batch[p].type = "down" /\ ButtonDownName[batch[p].index] = n
           \/ batch[p].type = "up" /\ ButtonUpName[batch[p].index] = n}

\* the state is the one left by the events of the batch taken in the order
\* of the batch: the latest event on a coordinate or a button decides
LatestEventDecides ==
    /\ \A c \in Coords :
          WritersOf(c) # {} => stick[c] = batch[Last(WritersOf(c))].value
    /\ \A n \in {ButtonDownName[k] : k \in 0..13} :
          TouchersOf(n) # {} =>
              (n \in held <=> batch[Last(TouchersOf(n))].type = "down")

\* a step keeps the order of delivery: the queue grows at its tail, a batch
\* is the whole queue in its order and is taken only when the batch before
\* it is exhausted, and the position in the batch moves on by one
KeepsDeliveryOrder ==
    /\ (pending' # pending /\ pending' # <<>>) =>
          \E e \in Events : pending' = Append(pending, e)
    /\ (i' # i \/ batch' # batch) =>
          \/ /\ pc = "poll" /\ (batch = <<>> \/ i = Len(batch) + 1)
             /\ batch' = pending /\ i' = 1
          \/ /\ pc \in {"event", "send"}
             /\ batch' = batch /\ i' = i + 1

(* C16: events are applied in the order of delivery, within a batch and    *)
(* from one batch to the next, so that the state is the one the events     *)
(* applied one by one in that order leave.                                 *)
C16_DeliveryOrder ==
    /\ [](pc \in {"poll", "event", "send"} => LatestEventDecides)
    /\ [][KeepsDeliveryOrder]_vars

\* a second batch, "axis 0 at 1.0, axis 0 at 0.5", has been processed after
\* a first batch of one event: the later sample is the coordinate
C16_Witness ==
    /\ delivered = 3
    /\ Len(batch) = 2
    /\ i = 3
    /\ batch[1] = [type |-> "axis", index |-> 0, value |-> 2]
    /\ batch[2] = [type |-> "axis", index |-> 0, value |-> 1]
    /\ stick[<<"l", "h">>] = 1

----------------------------------------------------------------------------
LogicalButtons ==
    {"y", "b", "a", "x", "l", "r", "zl", "zr", "minus", "plus", "l_stick",
     "r_stick", "home", "capture"}

\* the mutating calls made for the event at position p of the batch
MutationsFor(p) ==
    {k \in 1..Len(calls) :
        calls[k].ev = p /\ calls[k].op \in {"press", "release", "set"}}

(* C17: every button index 0..13 has exactly one logical button, the same  *)
(* for Button Down and Button Up, and every axis index 0..3 exactly one    *)
(* (side, direction) pair; the call the loop makes for a mapped event is   *)
(* the one call on that button or coordinate.                              *)
C17_MappingTotal ==
    /\ DOMAIN ButtonDownName = 0..13
    /\ DOMAIN ButtonUpName = 0..13
    /\ \A k \in 0..13 : /\ ButtonDownName[k] \in LogicalButtons
                        /\ ButtonUpName[k] = ButtonDownName[k]
    /\ DOMAIN AxisBinding = 0..3
    /\ \A a \in 0..3 : AxisBinding[a] \in [side : {"l", "r"}, dir : {"h", "v"}]
    /\ \A p \in 1..Len(batch) :
          (Mutated(p) /\ Mapped(batch[p])) =>
              /\ Cardinality(MutationsFor(p)) = 1
              /\ \A k \in MutationsFor(p) :
                    /\ batch[p].type = "down" =>
                          /\ calls[k].op = "press"
                          /\ calls[k].target \in LogicalButtons
                    /\ batch[p].type = "up" =>
                          /\ calls[k].op = "release"
                          /\ \A j \in 1..Len(calls) :
                                (calls[j].op = "press" /\
                                 batch[calls[j].ev].index = batch[p].index)
                                => calls[j].target = calls[k].target
                    /\ batch[p].type = "axis" =>
                          /\ calls[k].op = "set"
                          /\ calls[k].target \in Coords

\* "down 1, up 1, axis 3 at 0.5" has been processed: the button pressed is
\* the button released, and the right stick's vertical coordinate is set
C17_Witness ==
    /\ Len(batch) = 3
    /\ i = 4
    /\ batch[1] = [type |-> "down", index |-> 1, value |-> 0]
    /\ batch[2] = [type |-> "up", index |-> 1, value |-> 0]
    /\ batch[3] = [type |-> "axis", index |-> 3, value |-> 1]
    /\ \E j, k \in 1..Len(calls) :
          /\ calls[j].op = "press" /\ calls[k].op = "release"
          /\ calls[j].target = "b" /\ calls[k].target = "b"
    /\ stick[<<"r", "v">>] = 1

----------------------------------------------------------------------------
(* C18: processing an event changes at most the component bound to its     *)
(* index: an Axis Motion only the coordinate bound to its axis, a Button   *)
(* Down or Up only the held status of the button bound to its index, and   *)
(* an event with no binding nothing.                                       *)
C18_Frame ==
    [][pc = "event" =>
         LET ev == batch[i] IN
         /\ ev.type = "axis" =>
               /\ held' = held
               /\ \A c \in Coords :
                     stick'[c] # stick[c] =>
                         /\ ev.index \in 0..3
                         /\ c = Coord(AxisBinding[ev.index])
         /\ ev.type \in {"down", "up"} =>
               /\ stick' = stick
               /\ \A n \in LogicalButtons \cup held \cup held' :
                     ((n \in held') # (n \in held)) =>
                         /\ ev.index \in 0..13
                         /\ n = ButtonDownName[ev.index]]_vars

\* "axis 0 at 1.0, up 1, axis 3 at 0.5" has been processed with "y" held:
\* a coordinate of each stick is set and "y" is still held
C18_Witness ==
    /\ Len(batch) = 3
    /\ i = 4
    /\ batch[1] = [type |-> "axis", index |-> 0, value |-> 2]
    /\ batch[2] = [type |-> "up", index |-> 1, value |-> 0]
    /\ batch[3] = [type |-> "axis", index |-> 3, value |-> 1]
    /\ stick[<<"l", "h">>] = 2
    /\ stick[<<"r", "v">>] = 1
    /\ held = {"y"}

----------------------------------------------------------------------------
LoopOver == pc \in {"idle", "raised", "returned"}

(* C19: the loop runs only once the transport is created and cli.run() is  *)
(* entered; transport.close() is called only when no gamepad_proxy is in   *)
(* progress; and once the transport is closed the loop polls, mutates and  *)
(* sends no more.                                                          *)
C19_SessionBracketsLoop ==
    /\ [](pc # "idle" => /\ transport # "none"
                         /\ mainPc \in {"cli", "finally", "done", "failed"})
    /\ [](transport = "closed" => LoopOver)
    /\ [][closeCount' # closeCount => (mainPc = "finally" /\ LoopOver)]_vars
    /\ [][transport = "closed" =>
            UNCHANGED <<pc, batch, i, stick, held, calls, pending>>]_vars

\* the loop has run, a Button Down was sent, the loop ended with an
\* exception, and the transport was closed after that
C19_Witness ==
    /\ transport = "closed"
    /\ closeCount = 1
    /\ pc = "raised"
    /\ \E k \in 1..Len(calls) : calls[k].op = "send" /\ calls[k].arg = 1

====
